---------------------------- MODULE Spec2Model ----------------------------
(***************************************************************************)
(* CFR Global Conflict Tracker scraper (src/main.py).                      *)
(*                                                                         *)
(* Text is a sequence of one-character strings, so that the regular        *)
(* expression searches, str.replace, str.strip and str.split of the        *)
(* scraper are computed character by character.  A parsed page is the      *)
(* pre-order list of its nodes, each with the index of its parent (0 is    *)
(* the BeautifulSoup object itself).                                       *)
(***************************************************************************)
EXTENDS Integers, Sequences, FiniteSets, TLC

(***************************************************************************)
(* Bounds of the model.                                                    *)
(***************************************************************************)
\* largest number of blocks in the body of a response
MaxBlocks == 11
\* largest number of blocks in the body of an error page
MaxErrorBlocks == 1
\* largest number of method calls made by a client of the class
MaxCalls == 2

(***************************************************************************)
(* Text primitives of Python used by the scraper.                          *)
(***************************************************************************)
\* characters removed by str.strip() with no argument
Whitespace == {" ", "\t", "\n"}

UpperLetters ==
  <<"A","B","C","D","E","F","G","H","I","J","K","L","M",
    "N","O","P","Q","R","S","T","U","V","W","X","Y","Z">>

LowerLetters ==
  <<"a","b","c","d","e","f","g","h","i","j","k","l","m",
    "n","o","p","q","r","s","t","u","v","w","x","y","z">>

\* str.lower() of the upper-case letters
LowerOf ==
  [c \in {UpperLetters[i] : i \in 1..26} |->
     LowerLetters[CHOOSE i \in 1..26 : UpperLetters[i] = c]]

\* case folding of one character, as re.I compares characters
Lower(c) == IF c \in DOMAIN LowerOf THEN LowerOf[c] ELSE c

\* pat occurs in s at position i, compared exactly
MatchAt(s, pat, i) ==
  /\ i + Len(pat) - 1 <= Len(s)
  /\ \A j \in 1..Len(pat) : s[i + j - 1] = pat[j]

\* pat occurs in s at position i, compared ignoring case
IMatchAt(s, pat, i) ==
  /\ i + Len(pat) - 1 <= Len(s)
  /\ \A j \in 1..Len(pat) : Lower(s[i + j - 1]) = Lower(pat[j])

\* re.compile(pat, re.I).search(s) for a literal pattern
ISearch(s, pat) == \E i \in 1..Len(s) : IMatchAt(s, pat, i)

\* re.compile(p1|p2|..., re.I).search(s) for an alternation of literals
ISearchAny(s, pats) == \E k \in 1..Len(pats) : ISearch(s, pats[k])

\* the least element of a non-empty set of numbers
Min(S) == CHOOSE j \in S : \A x \in S : j <= x

\* the greatest element of a non-empty set of numbers
Max(S) == CHOOSE j \in S : \A x \in S : j >= x

\* the positions at which old occurs in s
Occurrences(s, old) == {i \in 1..Len(s) : MatchAt(s, old, i)}

RECURSIVE Replace(_, _)
\* s.replace(old, ''): every non-overlapping occurrence, left to right
Replace(s, old) ==
  IF Occurrences(s, old) = {} THEN s
  ELSE SubSeq(s, 1, Min(Occurrences(s, old)) - 1)
         \o Replace(SubSeq(s, Min(Occurrences(s, old)) + Len(old), Len(s)), old)

\* the positions of s that hold no whitespace
Inked(s) == {i \in 1..Len(s) : s[i] \notin Whitespace}

\* s.strip()
Strip(s) == IF Inked(s) = {} THEN <<>> ELSE SubSeq(s, Min(Inked(s)), Max(Inked(s)))

\* the positions of the separator in s, and the position after the end
Cuts(s, sep) == {i \in 1..Len(s) : s[i] = sep} \cup {Len(s) + 1}

\* the part of s that ends before the cut at position c
PartBefore(s, sep, c) ==
  SubSeq(s, Max({0} \cup {i \in Cuts(s, sep) : i < c}) + 1, c - 1)

\* s.split(sep) for a one-character separator
Split(s, sep) ==
  [n \in 1..Cardinality(Cuts(s, sep)) |->
     PartBefore(s, sep,
                CHOOSE c \in Cuts(s, sep) :
                  Cardinality({i \in Cuts(s, sep) : i < c}) = n - 1)]

(***************************************************************************)
(* The parsed document.                                                    *)
(***************************************************************************)
\* a tag node
Tag(name, class, parent) ==
  [kind |-> "tag", name |-> name, class |-> class, text |-> <<>>, parent |-> parent]

\* a text node (NavigableString)
Str(text, parent) ==
  [kind |-> "str", name |-> "", class |-> <<>>, text |-> text, parent |-> parent]

\* the node before the first of the nodes in after, or node n if there is none
EndBefore(after, n) == IF after = {} THEN n ELSE Min(after) - 1

\* index of the last node below node e: in pre-order the subtree of e ends
\* before the first later node whose parent precedes e
SubtreeEnd(doc, e) ==
  EndBefore({j \in (e + 1)..Len(doc) : doc[j].parent < e}, Len(doc))

\* the nodes below e (e = 0 is the whole document), in document order
Descendants(doc, e) == [k \in 1..(SubtreeEnd(doc, e) - e) |-> e + k]

RECURSIVE JoinStripped(_, _)
JoinStripped(doc, idx) ==
  IF idx = <<>> THEN <<>>
  ELSE Strip(doc[idx[1]].text) \o JoinStripped(doc, Tail(idx))

\* Tag.get_text(strip=True)
get_text(doc, e) ==
  LET IsStr(j) == doc[j].kind = "str"
  IN  JoinStripped(doc, SelectSeq(Descendants(doc, e), IsStr))

(***************************************************************************)
(* Records are Python dicts: functions from the keys present to values.    *)
(***************************************************************************)
\* {}
EmptyDict == [k \in {} |-> <<>>]

\* d[k] = v
Put(d, k, v) == [x \in DOMAIN d \cup {k} |-> IF x = k THEN v ELSE d[x]]

\* the value None, distinct from every dict of the scraper
None == [None |-> TRUE]

\* Python truth value of a dict-or-None
Truthy(d) == d # None /\ DOMAIN d # {}

(***************************************************************************)
(* CFRConflictScraper.parse_conflict_entry                                 *)
(***************************************************************************)
NameTags == {"h1", "h2", "h3", "h4", "h5", "h6", "a"}

RegionLabel == <<"R","e","g","i","o","n",":">>
TypeLabel == <<"T","y","p","e"," ","o","f"," ","C","o","n","f","l","i","c","t",":">>
ImpactLabel == <<"I","m","p","a","c","t"," ","o","n"," ","U","S"," ","I","n","t","e","r",
               "e","s","t","s",":">>
StatusLabel == <<"C","o","n","f","l","i","c","t"," ","S","t","a","t","u","s",":">>
CountriesLabel == <<"C","o","u","n","t","r","i","e","s"," ","A","f","f","e","c","t","e","d",
                  ":">>

\* entry.find(string=re.compile(label, re.I)): the matching text nodes
FindLabel(doc, entry, label) ==
  LET Matches(j) == doc[j].kind = "str" /\ ISearch(doc[j].text, label)
  IN  SelectSeq(Descendants(doc, entry), Matches)

\* elem.parent.get_text(strip=True).replace(label, '').strip()
LabelValue(doc, elem, label) ==
  Strip(Replace(get_text(doc, doc[elem].parent), label))

\* if elem: conflict[key] = <label stripped from the parent's text>
StoreField(doc, elems, conflict, key, label) ==
  IF elems # <<>>
  THEN Put(conflict, key, LabelValue(doc, elems[1], label))
  ELSE conflict

\* one "Extract ..." paragraph of parse_conflict_entry for a text field
ExtractField(doc, entry, conflict, key, label) ==
  StoreField(doc, FindLabel(doc, entry, label), conflict, key, label)

\* [c.strip() for c in parts]
StripAll(parts) == [i \in 1..Len(parts) |-> Strip(parts[i])]

\* [c.strip() for c in countries_text.split(',')]
SplitCountries(countries_text) == StripAll(Split(countries_text, ","))

\* if countries_elem: conflict['countries'] = <the split list>
StoreCountries(doc, elems, conflict) ==
  IF elems # <<>>
  THEN Put(conflict, "countries",
           SplitCountries(LabelValue(doc, elems[1], CountriesLabel)))
  ELSE conflict

\* the "Extract countries affected" paragraph
ExtractCountries(doc, entry, conflict) ==
  StoreCountries(doc, FindLabel(doc, entry, CountriesLabel), conflict)

\* entry.find(['h1', ..., 'h6', 'a']): the matching tags
FindNameTags(doc, entry) ==
  LET IsNameTag(j) == doc[j].kind = "tag" /\ doc[j].name \in NameTags
  IN  SelectSeq(Descendants(doc, entry), IsNameTag)

\* if name_elem: conflict['name'] = name_elem.get_text(strip=True)
StoreName(doc, name_elems, conflict) ==
  IF name_elems # <<>>
  THEN Put(conflict, "name", get_text(doc, name_elems[1]))
  ELSE conflict

\* the "Extract conflict name" paragraph
ExtractName(doc, entry, conflict) ==
  StoreName(doc, FindNameTags(doc, entry), conflict)

\* conflict.get('name') is truthy
HasName(conflict) == "name" \in DOMAIN conflict /\ conflict["name"] # <<>>

\* ReturnIfNamed, had the test been for the key and not for its value
ReturnIfNamed_AnyName(conflict) ==
  IF "name" \in DOMAIN conflict THEN conflict ELSE None

\* return conflict if conflict.get('name') else None
ReturnIfNamed(conflict) == IF HasName(conflict) THEN conflict ELSE None

\* conflict = {} and the six "Extract ..." paragraphs, in order
BuildConflict(doc, entry) ==
  ExtractCountries(doc, entry,
    ExtractField(doc, entry,
      ExtractField(doc, entry,
        ExtractField(doc, entry,
          ExtractField(doc, entry,
            ExtractName(doc, entry, EmptyDict),
            "region", RegionLabel),
          "type", TypeLabel),
        "us_impact", ImpactLabel),
      "status", StatusLabel))

parse_conflict_entry(doc, entry) == ReturnIfNamed(BuildConflict(doc, entry))

(***************************************************************************)
(* CFRConflictScraper.extract_conflict_data                                *)
(***************************************************************************)
BlockTags == {"div", "article", "section"}

\* re.compile(r'conflict|entry|item', re.I)
ClassPattern == <<<<"c","o","n","f","l","i","c","t">>, <<"e","n","t","r","y">>, <<"i","t","e","m">>>>

\* re.compile(r'Conflict|Instability|War|Crisis', re.I)
KeywordPattern == <<<<"C","o","n","f","l","i","c","t">>, <<"I","n","s","t","a","b","i","l","i","t","y">>, <<"W","a","r">>, <<"C","r","i","s","i","s">>>>

\* soup.find_all(['div', 'article', 'section'], class_=ClassPattern)
FindBlocks(doc) ==
  LET IsBlock(j) ==
        /\ doc[j].kind = "tag"
        /\ doc[j].name \in BlockTags
        /\ \E i \in 1..Len(doc[j].class) : ISearchAny(doc[j].class[i], ClassPattern)
  IN  SelectSeq(Descendants(doc, 0), IsBlock)

\* soup.find_all(string=KeywordPattern)
FindKeywords(doc) ==
  LET IsKeyword(j) == doc[j].kind = "str" /\ ISearchAny(doc[j].text, KeywordPattern)
  IN  SelectSeq(Descendants(doc, 0), IsKeyword)

\* [elem.parent for elem in strings if elem.parent]
Parents(doc, strings) == [i \in 1..Len(strings) |-> doc[strings[i]].parent]

\* if not conflict_entries: use the parents of the keyword strings
OrKeywordParents(doc, blocks) ==
  IF blocks # <<>> THEN blocks ELSE Parents(doc, FindKeywords(doc))

\* the candidate blocks, in document order
conflict_entries(doc) == OrKeywordParents(doc, FindBlocks(doc))

\* conflict_data of every entry, in the order of the loop
ParseEach(doc, entries) ==
  [i \in 1..Len(entries) |-> parse_conflict_entry(doc, entries[i])]

\* the loop over conflict_entries: append conflict_data if it is truthy
ParseAll(doc, entries) == SelectSeq(ParseEach(doc, entries), Truthy)

extract_conflict_data(doc) == ParseAll(doc, conflict_entries(doc))

(***************************************************************************)
(* Pages served by the tracker URL.  The body of a response is a sequence  *)
(* of markup blocks; BeautifulSoup turns it into the node list.            *)
(***************************************************************************)
\* <div class="conflict-item"><h3>War in Ukraine</h3><p>Region: Europe and
\* Eurasia</p><p>Type of Conflict: Interstate</p><p>Impact on US Interests:
\* Critical</p><p><b>Conflict Status:</b> Worsening</p><p>Countries
\* Affected: RU, UA</p></div>
FullBlock ==
  << Tag("div", <<<<"c","o","n","f","l","i","c","t","-","i","t","e","m">>>>, 0),
     Tag("h3", <<>>, 1), Str(<<"W","a","r"," ","i","n"," ","U","k","r","a","i","n","e">>, 2),
     Tag("p", <<>>, 1), Str(<<"R","e","g","i","o","n",":"," ","E","u","r","o","p","e"," ",
                            "a","n","d"," ","E","u","r","a","s","i","a">>, 4),
     Tag("p", <<>>, 1), Str(<<"T","y","p","e"," ","o","f"," ","C","o","n","f","l","i","c",
                            "t",":"," ","I","n","t","e","r","s","t","a","t","e">>, 6),
     Tag("p", <<>>, 1), Str(<<"I","m","p","a","c","t"," ","o","n"," ","U","S"," ","I","n",
                            "t","e","r","e","s","t","s",":"," ","C","r","i","t","i","c","a",
                            "l">>, 8),
     Tag("p", <<>>, 1), Tag("b", <<>>, 10), Str(<<"C","o","n","f","l","i","c","t"," ","S",
                                                "t","a","t","u","s",":">>, 11),
     Str(<<" ","W","o","r","s","e","n","i","n","g">>, 10),
     Tag("p", <<>>, 1), Str(<<"C","o","u","n","t","r","i","e","s"," ","A","f","f","e","c",
                            "t","e","d",":"," ","R","U",","," ","U","A">>, 14) >>

\* <article class="card Entry"><a>North Korea Crisis</a></article>
NameOnlyBlock ==
  << Tag("article", <<<<"c","a","r","d">>, <<"E","n","t","r","y">>>>, 0),
     Tag("a", <<>>, 1), Str(<<"N","o","r","t","h"," ","K","o","r","e","a"," ","C","r","i",
                            "s","i","s">>, 2) >>

\* <section class="item"><p>Region: Asia</p></section>
NamelessBlock ==
  << Tag("section", <<<<"i","t","e","m">>>>, 0),
     Tag("p", <<>>, 1), Str(<<"R","e","g","i","o","n",":"," ","A","s","i","a">>, 2) >>

\* <div class="entry"><h4> </h4><p>Conflict Status: Improving</p></div>
EmptyNameBlock ==
  << Tag("div", <<<<"e","n","t","r","y">>>>, 0),
     Tag("h4", <<>>, 1), Str(<<" ">>, 2),
     Tag("p", <<>>, 1), Str(<<"C","o","n","f","l","i","c","t"," ","S","t","a","t","u","s",
                            ":"," ","I","m","p","r","o","v","i","n","g">>, 4) >>

\* <div class="ConflictCard"><h2>Taiwan</h2><span>REGION: Asia</span>
\* <span>type of conflict: Interstate</span></div>
UpperLabelBlock ==
  << Tag("div", <<<<"C","o","n","f","l","i","c","t","C","a","r","d">>>>, 0),
     Tag("h2", <<>>, 1), Str(<<"T","a","i","w","a","n">>, 2),
     Tag("span", <<>>, 1), Str(<<"R","E","G","I","O","N",":"," ","A","s","i","a">>, 4),
     Tag("span", <<>>, 1), Str(<<"t","y","p","e"," ","o","f"," ","c","o","n","f","l","i",
                               "c","t",":"," ","I","n","t","e","r","s","t","a","t","e">>, 6) >>

\* <li>Crisis in <a>Haiti</a> Region: Americas</li>
KeywordBlock ==
  << Tag("li", <<>>, 0),
     Str(<<"C","r","i","s","i","s"," ","i","n"," ">>, 1),
     Tag("a", <<>>, 1), Str(<<"H","a","i","t","i">>, 3),
     Str(<<" ","R","e","g","i","o","n",":"," ","A","m","e","r","i","c","a","s">>, 1) >>

\* <p>About this page</p>
PlainBlock ==
  << Tag("p", <<>>, 0), Str(<<"A","b","o","u","t"," ","t","h","i","s"," ","p","a","g","e">>, 1) >>

BlockIds ==
  {"full", "name_only", "nameless", "empty_name", "upper_label", "keyword", "plain"}

Markup(id) ==
  CASE id = "full" -> FullBlock
    [] id = "name_only" -> NameOnlyBlock
    [] id = "nameless" -> NamelessBlock
    [] id = "empty_name" -> EmptyNameBlock
    [] id = "upper_label" -> UpperLabelBlock
    [] id = "keyword" -> KeywordBlock
    [] id = "plain" -> PlainBlock

\* the nodes of a block placed after offset nodes of the document
Shift(block, offset) ==
  [i \in 1..Len(block) |->
     [block[i] EXCEPT !.parent = IF @ = 0 THEN 0 ELSE @ + offset]]

\* the document with the nodes of one more block
AppendBlock(doc, block) == doc \o Shift(block, Len(doc))

RECURSIVE ParseMarkup(_, _)
\* the nodes of the first i blocks of the body
ParseMarkup(content, i) ==
  IF i = 0 THEN <<>>
  ELSE AppendBlock(ParseMarkup(content, i - 1), Markup(content[i]))

\* BeautifulSoup(response.content, 'html.parser')
BeautifulSoup(content) == ParseMarkup(content, Len(content))

Repeat(id, n) == [i \in 1..n |-> id]

\* the response bodies considered: copies of one block, then possibly one
\* other block, at most MaxBlocks blocks in all
Contents ==
  {Repeat(a, k) : <<a, k>> \in BlockIds \X (0..MaxBlocks)}
  \cup {Append(Repeat(a, k), b) :
          <<a, b, k>> \in BlockIds \X BlockIds \X (0..(MaxBlocks - 1))}

\* the bodies of the error pages considered
ErrorContents == {c \in Contents : Len(c) <= MaxErrorBlocks}

\* what session.get meets: an exception of requests, or a response
Responses ==
  {[error |-> e, status |-> 0, content |-> <<>>] : e \in {"ConnectionError", "Timeout"}}
  \cup [error : {"none"}, status : {200}, content : Contents]
  \cup [error : {"none"}, status : {404, 500}, content : ErrorContents]

(***************************************************************************)
(* CFRConflictScraper.fetch_page                                           *)
(***************************************************************************)
\* response.raise_for_status() raises HTTPError
raise_for_status(response) == 400 <= response.status /\ response.status < 600

\* None after a RequestException, otherwise the parsed document
fetch_page(response) ==
  IF response.error # "none" THEN None
  ELSE IF raise_for_status(response) THEN None
       ELSE [soup |-> BeautifulSoup(response.content)]

(***************************************************************************)
(* CFRConflictScraper.get_fallback_data                                    *)
(***************************************************************************)
FallbackTable ==
  <<
    [
     name |-> <<"I","n","s","t","a","b","i","l","i","t","y"," ","i","n"," ","t","h","e"," ","N",
          "o","r","t","h","e","r","n"," ","T","r","i","a","n","g","l","e">>,
     region |-> <<"A","m","e","r","i","c","a","s">>,
     type |-> <<"P","o","l","i","t","i","c","a","l"," ","I","n","s","t","a","b","i","l","i","t",
          "y">>,
     us_impact |-> <<"S","i","g","n","i","f","i","c","a","n","t">>,
     status |-> <<"U","n","c","h","a","n","g","i","n","g">>,
     countries |-> <<<<"S","V">>, <<"G","T">>, <<"H","N">>>>
    ],
    [
     name |-> <<"I","n","s","t","a","b","i","l","i","t","y"," ","i","n"," ","H","a","i","t","i">>,
     region |-> <<"A","m","e","r","i","c","a","s">>,
     type |-> <<"P","o","l","i","t","i","c","a","l"," ","I","n","s","t","a","b","i","l","i","t",
          "y">>,
     us_impact |-> <<"S","i","g","n","i","f","i","c","a","n","t">>,
     status |-> <<"W","o","r","s","e","n","i","n","g">>,
     countries |-> <<<<"H","T">>>>
    ],
    [
     name |-> <<"C","i","v","i","l"," ","W","a","r"," ","i","n"," ","S","u","d","a","n">>,
     region |-> <<"M","i","d","d","l","e"," ","E","a","s","t"," ","a","n","d"," ","N","o","r","t",
          "h"," ","A","f","r","i","c","a">>,
     type |-> <<"C","i","v","i","l"," ","W","a","r">>,
     us_impact |-> <<"L","i","m","i","t","e","d">>,
     status |-> <<"W","o","r","s","e","n","i","n","g">>,
     countries |-> <<<<"S","D">>>>
    ],
    [
     name |-> <<"V","i","o","l","e","n","t"," ","E","x","t","r","e","m","i","s","m"," ","i","n",
          " ","t","h","e"," ","S","a","h","e","l">>,
     region |-> <<"M","i","d","d","l","e"," ","E","a","s","t"," ","a","n","d"," ","N","o","r","t",
          "h"," ","A","f","r","i","c","a">>,
     type |-> <<"T","r","a","n","s","n","a","t","i","o","n","a","l"," ","T","e","r","r","o","r",
          "i","s","m">>,
     us_impact |-> <<"L","i","m","i","t","e","d">>,
     status |-> <<"W","o","r","s","e","n","i","n","g">>,
     countries |-> <<<<"B","F">>, <<"T","D">>, <<"M","L">>, <<"N","E">>, <<"N","G">>>>
    ],
    [
     name |-> <<"C","o","n","f","r","o","n","t","a","t","i","o","n"," ","O","v","e","r"," ","T",
          "a","i","w","a","n">>,
     region |-> <<"A","s","i","a">>,
     type |-> <<"I","n","t","e","r","s","t","a","t","e">>,
     us_impact |-> <<"C","r","i","t","i","c","a","l">>,
     status |-> <<"W","o","r","s","e","n","i","n","g">>,
     countries |-> <<<<"C","N">>, <<"T","W">>>>
    ],
    [
     name |-> <<"C","o","n","f","l","i","c","t"," ","i","n"," ","E","t","h","i","o","p","i","a">>,
     region |-> <<"S","u","b","-","S","a","h","a","r","a","n"," ","A","f","r","i","c","a">>,
     type |-> <<"P","o","l","i","t","i","c","a","l"," ","I","n","s","t","a","b","i","l","i","t",
          "y">>,
     us_impact |-> <<"L","i","m","i","t","e","d">>,
     status |-> <<"W","o","r","s","e","n","i","n","g">>,
     countries |-> <<<<"E","T">>>>
    ],
    [
     name |-> <<"I","r","a","n","'","s"," ","C","o","n","f","l","i","c","t"," ","W","i","t","h",
          " ","I","s","r","a","e","l"," ","a","n","d"," ","t","h","e"," ","U","n","i","t",
          "e","d"," ","S","t","a","t","e","s">>,
     region |-> <<"M","i","d","d","l","e"," ","E","a","s","t"," ","a","n","d"," ","N","o","r","t",
          "h"," ","A","f","r","i","c","a">>,
     type |-> <<"I","n","t","e","r","s","t","a","t","e">>,
     us_impact |-> <<"C","r","i","t","i","c","a","l">>,
     status |-> <<"W","o","r","s","e","n","i","n","g">>,
     countries |-> <<<<"I","R">>>>
    ],
    [
     name |-> <<"U",".","S","."," ","C","o","n","f","r","o","n","t","a","t","i","o","n"," ","W",
          "i","t","h"," ","V","e","n","e","z","u","e","l","a">>,
     region |-> <<"A","m","e","r","i","c","a","s">>,
     type |-> <<"I","n","t","e","r","s","t","a","t","e">>,
     us_impact |-> <<"L","i","m","i","t","e","d">>,
     status |-> <<"U","n","c","h","a","n","g","i","n","g">>,
     countries |-> <<<<"V","E">>>>
    ],
    [
     name |-> <<"C","o","n","f","l","i","c","t"," ","i","n"," ","Y","e","m","e","n"," ","a","n",
          "d"," ","t","h","e"," ","R","e","d"," ","S","e","a">>,
     region |-> <<"M","i","d","d","l","e"," ","E","a","s","t"," ","a","n","d"," ","N","o","r","t",
          "h"," ","A","f","r","i","c","a">>,
     type |-> <<"T","r","a","n","s","n","a","t","i","o","n","a","l"," ","T","e","r","r","o","r",
          "i","s","m">>,
     us_impact |-> <<"S","i","g","n","i","f","i","c","a","n","t">>,
     status |-> <<"W","o","r","s","e","n","i","n","g">>,
     countries |-> <<<<"Y","E">>>>
    ],
    [
     name |-> <<"C","o","n","f","l","i","c","t"," ","B","e","t","w","e","e","n"," ","I","n","d",
          "i","a"," ","a","n","d"," ","P","a","k","i","s","t","a","n">>,
     region |-> <<"A","s","i","a">>,
     type |-> <<"I","n","t","e","r","s","t","a","t","e">>,
     us_impact |-> <<"S","i","g","n","i","f","i","c","a","n","t">>,
     status |-> <<"W","o","r","s","e","n","i","n","g">>,
     countries |-> <<<<"I","N">>, <<"P","K">>>>
    ],
    [
     name |-> <<"C","i","v","i","l"," ","C","o","n","f","l","i","c","t"," ","i","n"," ","L","i",
          "b","y","a">>,
     region |-> <<"M","i","d","d","l","e"," ","E","a","s","t"," ","a","n","d"," ","N","o","r","t",
          "h"," ","A","f","r","i","c","a">>,
     type |-> <<"C","i","v","i","l"," ","W","a","r">>,
     us_impact |-> <<"L","i","m","i","t","e","d">>,
     status |-> <<"U","n","c","h","a","n","g","i","n","g">>,
     countries |-> <<<<"L","Y">>>>
    ],
    [
     name |-> <<"C","o","n","f","l","i","c","t"," ","W","i","t","h"," ","A","l","-","S","h","a",
          "b","a","a","b"," ","i","n"," ","S","o","m","a","l","i","a">>,
     region |-> <<"S","u","b","-","S","a","h","a","r","a","n"," ","A","f","r","i","c","a">>,
     type |-> <<"T","r","a","n","s","n","a","t","i","o","n","a","l"," ","T","e","r","r","o","r",
          "i","s","m">>,
     us_impact |-> <<"L","i","m","i","t","e","d">>,
     status |-> <<"U","n","c","h","a","n","g","i","n","g">>,
     countries |-> <<<<"S","O">>>>
    ],
    [
     name |-> <<"I","s","r","a","e","l","i","-","P","a","l","e","s","t","i","n","i","a","n"," ",
          "C","o","n","f","l","i","c","t">>,
     region |-> <<"M","i","d","d","l","e"," ","E","a","s","t"," ","a","n","d"," ","N","o","r","t",
          "h"," ","A","f","r","i","c","a">>,
     type |-> <<"T","e","r","r","i","t","o","r","i","a","l"," ","D","i","s","p","u","t","e">>,
     us_impact |-> <<"S","i","g","n","i","f","i","c","a","n","t">>,
     status |-> <<"W","o","r","s","e","n","i","n","g">>,
     countries |-> <<<<"I","L">>, <<"P","S">>>>
    ],
    [
     name |-> <<"C","r","i","m","i","n","a","l"," ","V","i","o","l","e","n","c","e"," ","i","n",
          " ","M","e","x","i","c","o">>,
     region |-> <<"A","m","e","r","i","c","a","s">>,
     type |-> <<"C","r","i","m","i","n","a","l"," ","V","i","o","l","e","n","c","e">>,
     us_impact |-> <<"S","i","g","n","i","f","i","c","a","n","t">>,
     status |-> <<"U","n","c","h","a","n","g","i","n","g">>,
     countries |-> <<<<"M","X">>>>
    ],
    [
     name |-> <<"C","o","n","f","l","i","c","t"," ","B","e","t","w","e","e","n"," ","T","u","r",
          "k","e","y"," ","a","n","d"," ","A","r","m","e","d"," ","K","u","r","d","i","s",
          "h"," ","G","r","o","u","p","s">>,
     region |-> <<"M","i","d","d","l","e"," ","E","a","s","t"," ","a","n","d"," ","N","o","r","t",
          "h"," ","A","f","r","i","c","a">>,
     type |-> <<"T","e","r","r","i","t","o","r","i","a","l"," ","D","i","s","p","u","t","e">>,
     us_impact |-> <<"L","i","m","i","t","e","d">>,
     status |-> <<"I","m","p","r","o","v","i","n","g">>,
     countries |-> <<<<"I","Q">>, <<"S","Y">>, <<"T","R">>>>
    ],
    [
     name |-> <<"I","n","s","t","a","b","i","l","i","t","y"," ","i","n"," ","I","r","a","q">>,
     region |-> <<"M","i","d","d","l","e"," ","E","a","s","t"," ","a","n","d"," ","N","o","r","t",
          "h"," ","A","f","r","i","c","a">>,
     type |-> <<"P","o","l","i","t","i","c","a","l"," ","I","n","s","t","a","b","i","l","i","t",
          "y">>,
     us_impact |-> <<"L","i","m","i","t","e","d">>,
     status |-> <<"W","o","r","s","e","n","i","n","g">>,
     countries |-> <<<<"I","Q">>>>
    ],
    [
     name |-> <<"I","n","s","t","a","b","i","l","i","t","y"," ","i","n"," ","S","o","u","t","h",
          " ","S","u","d","a","n">>,
     region |-> <<"S","u","b","-","S","a","h","a","r","a","n"," ","A","f","r","i","c","a">>,
     type |-> <<"P","o","l","i","t","i","c","a","l"," ","I","n","s","t","a","b","i","l","i","t",
          "y">>,
     us_impact |-> <<"L","i","m","i","t","e","d">>,
     status |-> <<"U","n","c","h","a","n","g","i","n","g">>,
     countries |-> <<<<"S","S">>>>
    ],
    [
     name |-> <<"W","a","r"," ","i","n"," ","U","k","r","a","i","n","e">>,
     region |-> <<"E","u","r","o","p","e"," ","a","n","d"," ","E","u","r","a","s","i","a">>,
     type |-> <<"I","n","t","e","r","s","t","a","t","e">>,
     us_impact |-> <<"C","r","i","t","i","c","a","l">>,
     status |-> <<"W","o","r","s","e","n","i","n","g">>,
     countries |-> <<<<"R","U">>, <<"U","A">>>>
    ],
    [
     name |-> <<"N","o","r","t","h"," ","K","o","r","e","a"," ","C","r","i","s","i","s">>,
     region |-> <<"A","s","i","a">>,
     type |-> <<"I","n","t","e","r","s","t","a","t","e">>,
     us_impact |-> <<"C","r","i","t","i","c","a","l">>,
     status |-> <<"U","n","c","h","a","n","g","i","n","g">>,
     countries |-> <<<<"K","P">>>>
    ],
    [
     name |-> <<"C","i","v","i","l"," ","W","a","r"," ","i","n"," ","M","y","a","n","m","a","r">>,
     region |-> <<"A","s","i","a">>,
     type |-> <<"C","i","v","i","l"," ","W","a","r">>,
     us_impact |-> <<"L","i","m","i","t","e","d">>,
     status |-> <<"W","o","r","s","e","n","i","n","g">>,
     countries |-> <<<<"M","M">>>>
    ],
    [
     name |-> <<"T","e","r","r","i","t","o","r","i","a","l"," ","D","i","s","p","u","t","e","s",
          " ","i","n"," ","t","h","e"," ","S","o","u","t","h"," ","C","h","i","n","a"," ",
          "S","e","a">>,
     region |-> <<"A","s","i","a">>,
     type |-> <<"T","e","r","r","i","t","o","r","i","a","l"," ","D","i","s","p","u","t","e">>,
     us_impact |-> <<"C","r","i","t","i","c","a","l">>,
     status |-> <<"U","n","c","h","a","n","g","i","n","g">>,
     countries |-> <<<<"B","N">>, <<"C","N">>, <<"I","D">>, <<"M","Y">>, <<"P","H">>, <<"T","W">>, <<"V","N">>>>
    ],
    [
     name |-> <<"C","o","n","f","l","i","c","t"," ","i","n"," ","t","h","e"," ","D","e","m","o",
          "c","r","a","t","i","c"," ","R","e","p","u","b","l","i","c"," ","o","f"," ","C",
          "o","n","g","o">>,
     region |-> <<"S","u","b","-","S","a","h","a","r","a","n"," ","A","f","r","i","c","a">>,
     type |-> <<"P","o","l","i","t","i","c","a","l"," ","I","n","s","t","a","b","i","l","i","t",
          "y">>,
     us_impact |-> <<"L","i","m","i","t","e","d">>,
     status |-> <<"W","o","r","s","e","n","i","n","g">>,
     countries |-> <<<<"C","D">>>>
    ],
    [
     name |-> <<"C","o","n","f","l","i","c","t"," ","i","n"," ","t","h","e"," ","C","e","n","t",
          "r","a","l"," ","A","f","r","i","c","a","n"," ","R","e","p","u","b","l","i","c">>,
     region |-> <<"S","u","b","-","S","a","h","a","r","a","n"," ","A","f","r","i","c","a">>,
     type |-> <<"C","i","v","i","l"," ","W","a","r">>,
     us_impact |-> <<"L","i","m","i","t","e","d">>,
     status |-> <<"U","n","c","h","a","n","g","i","n","g">>,
     countries |-> <<<<"C","F">>>>
    ],
    [
     name |-> <<"C","o","n","f","l","i","c","t"," ","W","i","t","h"," ","H","e","z","b","o","l",
          "l","a","h"," ","i","n"," ","L","e","b","a","n","o","n">>,
     region |-> <<"M","i","d","d","l","e"," ","E","a","s","t"," ","a","n","d"," ","N","o","r","t",
          "h"," ","A","f","r","i","c","a">>,
     type |-> <<"I","n","t","e","r","s","t","a","t","e">>,
     us_impact |-> <<"S","i","g","n","i","f","i","c","a","n","t">>,
     status |-> <<"W","o","r","s","e","n","i","n","g">>,
     countries |-> <<<<"L","B">>>>
    ],
    [
     name |-> <<"C","o","n","f","l","i","c","t"," ","i","n"," ","S","y","r","i","a">>,
     region |-> <<"M","i","d","d","l","e"," ","E","a","s","t"," ","a","n","d"," ","N","o","r","t",
          "h"," ","A","f","r","i","c","a">>,
     type |-> <<"C","i","v","i","l"," ","W","a","r">>,
     us_impact |-> <<"L","i","m","i","t","e","d">>,
     status |-> <<"W","o","r","s","e","n","i","n","g">>,
     countries |-> <<<<"S","Y">>>>
    ],
    [
     name |-> <<"I","n","s","t","a","b","i","l","i","t","y"," ","i","n"," ","A","f","g","h","a",
          "n","i","s","t","a","n">>,
     region |-> <<"A","s","i","a">>,
     type |-> <<"P","o","l","i","t","i","c","a","l"," ","I","n","s","t","a","b","i","l","i","t",
          "y">>,
     us_impact |-> <<"L","i","m","i","t","e","d">>,
     status |-> <<"W","o","r","s","e","n","i","n","g">>,
     countries |-> <<<<"A","F">>>>
    ],
    [
     name |-> <<"I","n","s","t","a","b","i","l","i","t","y"," ","i","n"," ","P","a","k","i","s",
          "t","a","n">>,
     region |-> <<"A","s","i","a">>,
     type |-> <<"P","o","l","i","t","i","c","a","l"," ","I","n","s","t","a","b","i","l","i","t",
          "y">>,
     us_impact |-> <<"L","i","m","i","t","e","d">>,
     status |-> <<"W","o","r","s","e","n","i","n","g">>,
     countries |-> <<<<"P","K">>>>
    ],
    [
     name |-> <<"T","e","n","s","i","o","n","s"," ","B","e","t","w","e","e","n"," ","A","r","m",
          "e","n","i","a"," ","a","n","d"," ","A","z","e","r","b","a","i","j","a","n">>,
     region |-> <<"E","u","r","o","p","e"," ","a","n","d"," ","E","u","r","a","s","i","a">>,
     type |-> <<"T","e","r","r","i","t","o","r","i","a","l"," ","D","i","s","p","u","t","e">>,
     us_impact |-> <<"L","i","m","i","t","e","d">>,
     status |-> <<"I","m","p","r","o","v","i","n","g">>,
     countries |-> <<<<"A","M">>, <<"A","Z">>>>
    ]
  >>

\* get_fallback_data, had the last entry been pasted twice
get_fallback_data_Dup == [FallbackTable EXCEPT ![28] = FallbackTable[27]]

\* get_fallback_data, had the Yemen entry been entered as Critical
get_fallback_data_Yemen ==
  [FallbackTable EXCEPT ![9].us_impact = <<"C","r","i","t","i","c","a","l">>]

get_fallback_data == FallbackTable

(***************************************************************************)
(* CFRConflictScraper.scrape_conflicts                                     *)
(***************************************************************************)
\* "Expect at least 10 conflicts"
MinConflicts == 10

\* Insufficient, had the comparison been <=
Insufficient_Le(conflicts) == conflicts = <<>> \/ Len(conflicts) <= MinConflicts

\* Insufficient, had the threshold been one less
Insufficient_Nine(conflicts) == conflicts = <<>> \/ Len(conflicts) < MinConflicts - 1

\* not conflicts or len(conflicts) < 10
Insufficient(conflicts) == conflicts = <<>> \/ Len(conflicts) < MinConflicts

\* AfterExtract, had the quality gate been left out
AfterExtract_NoGate(extracted) ==
  [conflicts |-> extracted, fetched |-> TRUE,
   extract_called |-> TRUE, extracted |-> extracted,
   fallback_called |-> FALSE]

\* the else branch, after conflicts = self.extract_conflict_data(soup)
AfterExtract(extracted) ==
  IF Insufficient(extracted)
  THEN [conflicts |-> get_fallback_data, fetched |-> TRUE,
        extract_called |-> TRUE, extracted |-> extracted,
        fallback_called |-> TRUE]
  ELSE [conflicts |-> extracted, fetched |-> TRUE,
        extract_called |-> TRUE, extracted |-> extracted,
        fallback_called |-> FALSE]

\* AfterFetch, had a failed fetch gone on to extraction of an empty page
AfterFetch_NoShortCut(page) ==
  IF page = None
  THEN AfterExtract(extract_conflict_data(<<>>))
  ELSE AfterExtract(extract_conflict_data(page.soup))

\* the body of scrape_conflicts after soup = self.fetch_page(...)
AfterFetch(page) ==
  IF page = None
  THEN [conflicts |-> get_fallback_data, fetched |-> FALSE,
        extract_called |-> FALSE, extracted |-> <<>>,
        fallback_called |-> TRUE]
  ELSE AfterExtract(extract_conflict_data(page.soup))

\* the value returned and stored, with what the run called on the way
scrape_conflicts(response) == AfterFetch(fetch_page(response))

(***************************************************************************)
(* CFRConflictScraper.analyze_data                                         *)
(***************************************************************************)
\* insertion order of the keys of a record
KeyOrder == <<"name", "region", "type", "us_impact", "status", "countries">>

\* index of the first record that has the key k
FirstWith(records, k) == Min({i \in 1..Len(records) : k \in DOMAIN records[i]})

\* place of the key k in KeyOrder
KeyPlace(k) == CHOOSE i \in 1..Len(KeyOrder) : KeyOrder[i] = k

\* the key k is seen before the key h when the records are read in order
SeenBefore(records, k, h) ==
  \/ FirstWith(records, k) < FirstWith(records, h)
  \/ FirstWith(records, k) = FirstWith(records, h) /\ KeyPlace(k) < KeyPlace(h)

\* the keys in first-seen order
FirstSeen(records, keys) ==
  [n \in 1..Cardinality(keys) |->
     CHOOSE k \in keys :
       Cardinality({h \in keys : SeenBefore(records, h, k)}) = n - 1]

\* columns of pd.DataFrame(records): the keys in first-seen order
DataFrameColumns(records) ==
  FirstSeen(records, UNION {DOMAIN records[i] : i \in 1..Len(records)})

HasColumn(records, k) == \E i \in 1..Len(records) : k \in DOMAIN records[i]

\* a missing cell of the frame, as it prints
NaN == <<"n","a","n">>

Cell(r, k) == IF k \in DOMAIN r THEN r[k] ELSE NaN

\* df[k].value_counts(): count of each value present
value_counts(records, k) ==
  [v \in {records[i][k] : i \in {j \in 1..Len(records) : k \in DOMAIN records[j]}} |->
     Cardinality({i \in 1..Len(records) : k \in DOMAIN records[i] /\ records[i][k] = v})]

\* df[df[k] == value], printed as "- name (region)"
Lines(rows) ==
  [i \in 1..Len(rows) |-> <<Cell(rows[i], "name"), Cell(rows[i], "region")>>]

\* df[df[k] == value]
Select(records, k, value) ==
  LET Selected(r) == Cell(r, k) = value
  IN  SelectSeq(records, Selected)

Listing(records, k, value) == Lines(Select(records, k, value))

NoReport == [printed |-> FALSE]

\* the columns analyze_data indexes, in the order it does
ReportColumns == <<"region", "type", "us_impact", "status">>

\* df[k] raises KeyError when no record has the key k
MissingColumn(records) ==
  \E i \in 1..Len(ReportColumns) : ~HasColumn(records, ReportColumns[i])

analyze_data(records) ==
  IF records = <<>> THEN [exception |-> "none", report |-> NoReport]
  ELSE IF MissingColumn(records) THEN [exception |-> "KeyError", report |-> NoReport]
  ELSE [exception |-> "none",
        report |->
          [printed |-> TRUE,
           total |-> Len(records),
           by_region |-> value_counts(records, "region"),
           by_type |-> value_counts(records, "type"),
           by_us_impact |-> value_counts(records, "us_impact"),
           by_status |-> value_counts(records, "status"),
           critical |-> Listing(records, "us_impact", <<"C","r","i","t","i","c","a","l">>),
           worsening |-> Listing(records, "status", <<"W","o","r","s","e","n","i","n","g">>)]]

(***************************************************************************)
(* CFRConflictScraper.export_to_csv, export_to_json                        *)
(***************************************************************************)
NoFile == [exists |-> FALSE]

\* export_to_csv, had the test for an empty list been left out
export_to_csv_Unguarded(records, old) ==
  [exists |-> TRUE, header |-> DataFrameColumns(records), rows |-> Len(records)]

\* the file left by export_to_csv
export_to_csv(records, old) ==
  IF records = <<>> THEN old
  ELSE [exists |-> TRUE, header |-> DataFrameColumns(records), rows |-> Len(records)]

\* the file left by export_to_json
export_to_json(records, old) ==
  IF records = <<>> THEN old
  ELSE [exists |-> TRUE, records |-> records]

(***************************************************************************)
(* The scraper object, its caller and the tracker page.                    *)
(***************************************************************************)
VARIABLES
  mode,       \* "main": the script's main(); "api": a client of the class
  pc,         \* position of the caller
  calls,      \* method calls made so far by the client
  network,    \* what the tracker URL answers during this run
  conflicts,  \* self.conflicts
  returned,   \* value returned by the last scrape_conflicts
  run,        \* what the last scrape_conflicts did
  report,     \* what the last analyze_data printed
  files,      \* cfr_conflicts.csv and cfr_conflicts.json
  steps       \* the methods that have returned, in order

vars == <<mode, pc, calls, network, conflicts, returned, run, report, files, steps>>

NoRun == [ran |-> FALSE]

\* CFRConflictScraper.__init__ and the start of the caller
Init ==
  /\ mode \in {"main", "api"}
  /\ pc = IF mode = "main" THEN "scrape" ELSE "idle"
  /\ calls = 0
  /\ network \in Responses
  /\ conflicts = <<>>
  /\ returned = <<>>
  /\ run = NoRun
  /\ report = NoReport
  /\ files = [csv |-> NoFile, json |-> NoFile]
  /\ steps = <<>>

\* the caller is about to call the method
AtCall(method) ==
  \/ mode = "main" /\ pc = method
  \/ mode = "api" /\ pc = "idle" /\ calls < MaxCalls

\* conflicts = scraper.scrape_conflicts(), and main's test of the result
Scrape ==
  /\ AtCall("scrape")
  /\ \E out \in {scrape_conflicts(network)} :
       /\ conflicts' = out.conflicts
       /\ returned' = out.conflicts
       /\ run' = [ran |-> TRUE, fetched |-> out.fetched,
                  extract_called |-> out.extract_called,
                  extracted |-> out.extracted,
                  fallback_called |-> out.fallback_called]
       /\ pc' = IF mode = "api" THEN "idle"
                ELSE IF out.conflicts # <<>> THEN "analyze" ELSE "nodata"
  /\ calls' = calls + 1
  /\ steps' = Append(steps, "scrape_conflicts")
  /\ UNCHANGED <<mode, network, report, files>>

\* scraper.analyze_data()
Analyze ==
  /\ AtCall("analyze")
  /\ \E out \in {analyze_data(conflicts)} :
       IF out.exception # "none"
       THEN /\ pc' = "raised"
            /\ UNCHANGED <<report, steps>>
       ELSE /\ pc' = IF mode = "api" THEN "idle" ELSE "csv"
            /\ report' = out.report
            /\ steps' = Append(steps, "analyze_data")
  /\ calls' = calls + 1
  /\ UNCHANGED <<mode, network, conflicts, returned, run, files>>

\* scraper.export_to_csv()
ExportCsv ==
  /\ AtCall("csv")
  /\ files' = [files EXCEPT !.csv = export_to_csv(conflicts, @)]
  /\ pc' = IF mode = "api" THEN "idle" ELSE "json"
  /\ calls' = calls + 1
  /\ steps' = Append(steps, "export_to_csv")
  /\ UNCHANGED <<mode, network, conflicts, returned, run, report>>

\* scraper.export_to_json(), and the end of main
ExportJson ==
  /\ AtCall("json")
  /\ files' = [files EXCEPT !.json = export_to_json(conflicts, @)]
  /\ pc' = IF mode = "api" THEN "idle" ELSE "done"
  /\ calls' = calls + 1
  /\ steps' = Append(steps, "export_to_json")
  /\ UNCHANGED <<mode, network, conflicts, returned, run, report>>

Next == Scrape \/ Analyze \/ ExportCsv \/ ExportJson

Spec == Init /\ [][Next]_vars

(***************************************************************************)
(* Properties.                                                             *)
(***************************************************************************)
Last(seq) == seq[Len(seq)]

MainSteps == <<"scrape_conflicts", "analyze_data", "export_to_csv", "export_to_json">>

\* C1: when the fetch of the tracker page fails, scrape_conflicts returns and
\* stores the fallback sequence, element for element and in the same order,
\* and extract_conflict_data is not invoked in that run.
C1_FetchFailureUsesFallback ==
  (run.ran /\ fetch_page(network) = None) =>
    /\ Len(returned) = Len(get_fallback_data)
    /\ \A i \in 1..Len(returned) : returned[i] = get_fallback_data[i]
    /\ conflicts = returned
    /\ ~run.extract_called

C1_Witness ==
  /\ run.ran
  /\ network.error = "Timeout"
  /\ fetch_page(network) = None
  /\ returned = get_fallback_data

\* C2: when the fetch succeeds and extract_conflict_data returns 10 or more
\* records, exactly 10 included, scrape_conflicts returns that sequence
\* unchanged and the fallback data is not used.
C2_SufficientExtractionIsReturned ==
  (run.ran /\ run.fetched /\ run.extract_called /\ Len(run.extracted) >= 10) =>
    /\ returned = run.extracted
    /\ conflicts = run.extracted
    /\ ~run.fallback_called
    /\ returned # get_fallback_data

C2_Witness ==
  /\ run.ran /\ run.fetched /\ run.extract_called
  /\ Len(run.extracted) = 10
  /\ returned = run.extracted

\* C3: when the fetch succeeds and extract_conflict_data returns fewer than 10
\* records, scrape_conflicts returns the fallback sequence and none of the
\* extracted records appears in the output.
C3_InsufficientExtractionUsesFallback ==
  (run.ran /\ run.fetched /\ run.extract_called /\ Len(run.extracted) < 10) =>
    /\ returned = get_fallback_data
    /\ conflicts = get_fallback_data
    /\ \A i \in 1..Len(run.extracted) :
         \A j \in 1..Len(returned) : returned[j] # run.extracted[i]

C3_Witness ==
  /\ run.ran /\ run.fetched /\ run.extract_called
  /\ Len(run.extracted) = 9
  /\ returned = get_fallback_data

\* C4: every run of main ends normally, having executed analyze_data, the CSV
\* export and the JSON export in that order, also when the extracted records
\* lack some of the fields region, type, us_impact or status.
C4_MainAlwaysCompletes ==
  mode = "main" =>
    /\ pc # "raised"
    /\ pc \notin {"scrape", "analyze", "csv", "json"} =>
         pc = "done" /\ steps = MainSteps

\* C5: after scrape_conflicts returns, the returned sequence and
\* self.conflicts are the same non-empty sequence; main never takes its
\* "No conflicts data found" branch and within main the exporters write
\* their files.
C5_ScrapeResultNonEmpty ==
  /\ run.ran => returned = conflicts /\ Len(returned) > 0
  /\ mode = "main" =>
       /\ pc # "nodata"
       /\ pc \in {"json", "done"} => files.csv.exists
       /\ pc = "done" => files.json.exists /\ files.json.records = returned

C5_Witness ==
  /\ mode = "main" /\ pc = "done"
  /\ run.ran /\ ~run.fallback_called
  /\ files.csv.exists /\ files.json.exists

TaiwanName == <<"C","o","n","f","r","o","n","t","a","t","i","o","n"," ","O","v","e","r"," ",
              "T","a","i","w","a","n">>
IranName == <<"I","r","a","n","'","s"," ","C","o","n","f","l","i","c","t"," ","W","i","t",
            "h"," ","I","s","r","a","e","l"," ","a","n","d"," ","t","h","e"," ","U","n","i",
            "t","e","d"," ","S","t","a","t","e","s">>
YemenName == <<"C","o","n","f","l","i","c","t"," ","i","n"," ","Y","e","m","e","n"," ","a",
             "n","d"," ","t","h","e"," ","R","e","d"," ","S","e","a">>
UkraineName == <<"W","a","r"," ","i","n"," ","U","k","r","a","i","n","e">>
NorthKoreaName == <<"N","o","r","t","h"," ","K","o","r","e","a"," ","C","r","i","s","i","s">>
SouthChinaSeaName == <<"T","e","r","r","i","t","o","r","i","a","l"," ","D","i","s","p","u",
                     "t","e","s"," ","i","n"," ","t","h","e"," ","S","o","u","t","h"," ",
                     "C","h","i","n","a"," ","S","e","a">>

\* the names listed under "Critical Conflicts" in the report
CriticalNames == [i \in 1..Len(report.critical) |-> report.critical[i][1]]

Listed(name) == \E i \in 1..Len(CriticalNames) : CriticalNames[i] = name

\* the report printed in a run whose fetch met a 500 status
ReportAfter500 == run.ran /\ network.status = 500 /\ report.printed

\* C7 as stated: after a 500 status the run uses the fallback data and the
\* report shows 28 conflicts and exactly 6 Critical records, among them the
\* Taiwan, Iran and Yemen records.
C7_SixCritical ==
  ReportAfter500 =>
    /\ run.fallback_called
    /\ report.total = 28
    /\ Len(report.critical) = 6
    /\ Listed(TaiwanName) /\ Listed(IranName) /\ Listed(YemenName)

\* C7 amended: after a 500 status the run uses the fallback data and the
\* report shows 28 conflicts and exactly 5 Critical records: Taiwan, Iran,
\* Ukraine, North Korea and the South China Sea, in that order; the Yemen
\* record is not among them.
C7_FiveCritical ==
  ReportAfter500 =>
    /\ run.fallback_called
    /\ report.total = 28
    /\ CriticalNames =
         <<TaiwanName, IranName, UkraineName, NorthKoreaName, SouthChinaSeaName>>
    /\ ~Listed(YemenName)

C7_Witness ==
  /\ ReportAfter500
  /\ mode = "main" /\ pc = "done"
  /\ Len(report.critical) = 5

\* the step taken is an export called while the record sequence is empty
ExportOnEmpty ==
  /\ conflicts = <<>>
  /\ steps' # steps
  /\ Last(steps') \in {"export_to_csv", "export_to_json"}

\* C8: export_to_csv or export_to_json called while the record sequence is
\* empty writes no file, raises no error and leaves the sequence unchanged.
C8_EmptyExportIsNoOp ==
  [][ExportOnEmpty =>
       /\ files' = files
       /\ files'.csv = NoFile /\ files'.json = NoFile
       /\ conflicts' = conflicts
       /\ pc' # "raised"]_vars

C8_Witness ==
  /\ mode = "api"
  /\ steps = <<"export_to_csv", "export_to_json">>
  /\ conflicts = <<>>
  /\ files = [csv |-> NoFile, json |-> NoFile]

\* the candidates whose parsed name is non-empty, in document order
NamedCandidates(doc, entries) ==
  LET Named(e) == HasName(BuildConflict(doc, e))
  IN  SelectSeq(entries, Named)

\* extracted is, record for record, what the named candidates parse to
IsParseOf(doc, named, extracted) ==
  /\ Len(extracted) = Len(named)
  /\ \A i \in 1..Len(named) : extracted[i] = BuildConflict(doc, named[i])

\* the state right after the first scrape_conflicts of a run that extracted
JustExtracted == run.ran /\ run.extract_called /\ steps = <<"scrape_conflicts">>

\* C9: extract_conflict_data returns exactly the candidate blocks whose parsed
\* name is non-empty, in document order: nameless candidates are dropped, a
\* candidate with only a name is kept, equal records are all kept.
C9_ExtractKeepsNamedCandidates ==
  JustExtracted =>
    IsParseOf(BeautifulSoup(network.content),
              NamedCandidates(BeautifulSoup(network.content),
                              conflict_entries(BeautifulSoup(network.content))),
              run.extracted)

C9_Witness ==
  /\ JustExtracted
  /\ network.content = <<"name_only", "name_only", "nameless">>
  /\ Len(run.extracted) = 2
  /\ run.extracted[1] = run.extracted[2]
  /\ DOMAIN run.extracted[1] = {"name"}

FieldLabels ==
  [region |-> RegionLabel, type |-> TypeLabel, us_impact |-> ImpactLabel,
   status |-> StatusLabel]

\* no stored value of the record contains its label, in any letter case
LabelFree(r) ==
  /\ \A k \in DOMAIN FieldLabels :
       k \in DOMAIN r => ~ISearch(r[k], FieldLabels[k])
  /\ "countries" \in DOMAIN r =>
       \A i \in 1..Len(r.countries) : ~ISearch(r.countries[i], CountriesLabel)

\* C10: in parse_conflict_entry, whenever a text node matches a field's label
\* pattern, in whatever letter case, the stored value is the parent's text
\* with the label removed and trimmed, so it never contains the label.
C10_StoredValueHasNoLabel ==
  (run.ran /\ run.extract_called) =>
    \A i \in 1..Len(run.extracted) : LabelFree(run.extracted[i])

=============================================================================
